---- MODULE Spec2Model ----
(***************************************************************************)
(* Session shopping cart, checkout and order status workflow of the        *)
(* MARIVOR storefront (src/app.py) with the cart validation and the orders *)
(* table access of the Supabase client (src/supabase_utils.py).            *)
(*                                                                         *)
(* The state is one browser session (its login keys and its 'cart' entry), *)
(* the products and orders tables, and the last cart request and the last  *)
(* order request with their responses.                                     *)
(* Requests carry an integer product_id and an integer quantity, as the    *)
(* signature of validate_cart_item declares them.  Prices are whole        *)
(* numbers.  A cart line keeps product_id, price and quantity; its         *)
(* display-only fields (name, image_url, category, seller_name, unit,      *)
(* stock) take no part in any computation and are left out.                *)
(***************************************************************************)
EXTENDS Integers, Sequences, FiniteSets, TLC

(***************************************************************************)
(* Bounds of the model.  The catalogue holds a retail product (id 1),      *)
(* ordered a few units at a time, and a bulk product (id 2), ordered by    *)
(* the half hundred, so that both the stock limit and the per-line         *)
(* quantity cap of validate_cart_item are met.                             *)
(***************************************************************************)
RetailStock == 5
LowStock == 1
RetailQty == 2
OverQty == 10
BulkStock == 200
MidStock == 60
BulkQty == 50
\* the orders a run places
MaxOrders == 2
\* the admin status requests in flight at a time
AdminRequests == 2
\* the minutes a run lasts
MaxClock == 6
\* the wrong codes the history counts
MaxWrongCodes == 4

RetailProduct == 1
BulkProduct == 2
ProductIds == {RetailProduct, BulkProduct}

\* product_id values of a request; 0 is the falsy id of `if not product_id`
RequestIds == {0} \cup ProductIds

Price(p) == IF p = BulkProduct THEN 40 ELSE 100

QtyInputs(p) ==
  IF p = BulkProduct THEN {0, BulkQty, 2 * BulkQty}
                     ELSE {-1, 0, RetailQty, OverQty}

StockInputs(p) ==
  IF p = BulkProduct THEN {MidStock, BulkStock}
                     ELSE {LowStock, RetailStock}

\* validate_cart_item: `if quantity > 99`
MAX_QUANTITY == 99

VARIABLES
  products,    \* the products table: id -> [present, price, stock]
  logged_in,   \* the customer login: user_id and phone_number in the session
  has_cart,    \* 'cart' in session
  cart,        \* session['cart']: [items, total_items, total_price]
  request,     \* the last cart request: [op, product_id, quantity]
  response,    \* its JSON response: [success, error]
  prior,       \* history: the quantity the requested product had in the
               \* cart when the last request arrived (0: no line)
  zeroed,      \* history: products whose line an update with quantity <= 0
               \* removed and that no add has put back since
  orders,      \* the orders table: row id -> [status, total_amount, items,
               \* seller_id]
  is_admin,    \* session['is_admin']
  seller_id,   \* session['seller_id'] of a seller session (user_type
               \* 'seller'), 0 otherwise
  order_request,   \* the last order request: [op, order_id, status]
  order_response,  \* its response: [success, error]
  writes,      \* history: the rows of the orders table the last order
               \* request inserted or updated
  inflight,    \* the admin status requests that have validated their
               \* transition and not yet written it:
               \* slot -> [pc, order_id, status]
  otp_codes,   \* the otp_codes table: formatted phone number -> the rows
               \* of the number, [otp_code_hash, expires_at, attempts, is_used]
  now,         \* datetime.now(), in minutes
  otp_request,   \* the last OTP call: [op, phone_number, otp_code]
  otp_response,  \* its result: [success, error]
  otp_history    \* history: formatted phone number -> [verified, wrong]:
                 \* the code that verified and the wrong codes submitted
                 \* since the last store_otp for the number

orderVars == <<orders, is_admin, seller_id, order_request, order_response, writes>>

otpVars == <<otp_codes, now, otp_request, otp_response, otp_history>>

vars == <<products, logged_in, has_cart, cart, request, response, prior, zeroed,
          orders, is_admin, seller_id, order_request, order_response, writes,
          inflight, otp_codes, now, otp_request, otp_response, otp_history>>

(***************************************************************************)
(* Error messages of the handlers.                                         *)
(***************************************************************************)
ErrLogin == "Please log in"
ErrIdRequired == "Product ID is required"
ErrIdQtyRequired == "Product ID and quantity are required"
ErrMinQuantity == "Quantity must be at least 1"
ErrMaxQuantity == "Maximum quantity per item is 99"
ErrProductNotFound == "Product not found"
ErrStock == "Only N items available in stock"
ErrCartEmpty == "Cart is empty"
ErrItemNotFound == "Item not found in cart"
NoError == ""

\* the error kinds of the specification, as sets of messages
OutOfStock == {ErrStock}
InvalidQuantity == {ErrMinQuantity}
NotFound == {ErrProductNotFound, ErrItemNotFound, ErrCartEmpty}

EmptyCart == [items |-> <<>>, total_items |-> 0, total_price |-> 0]

(***************************************************************************)
(* The orders table.  A row keeps status, total_amount, items and the      *)
(* order-level seller_id that seller_update_order_status reads; create_order *)
(* no longer writes that column, so the rows it inserts hold no seller     *)
(* (0).  The table starts with a row of a store, as written while orders   *)
(* still carried their seller, and a row without one.                      *)
(***************************************************************************)
SellerId == 1

InitialOrders ==
  << [status |-> "pending", total_amount |-> 100 * RetailQty,
      items |-> <<[product_id |-> RetailProduct, price |-> 100,
                   quantity |-> RetailQty]>>,
      seller_id |-> SellerId],
     [status |-> "pending", total_amount |-> 40 * BulkQty,
      items |-> <<[product_id |-> BulkProduct, price |-> 40,
                   quantity |-> BulkQty]>>,
      seller_id |-> 0] >>

(***************************************************************************)
(* Helpers on the list of cart lines.                                      *)
(***************************************************************************)
RECURSIVE SumQuantity(_)
SumQuantity(items) ==
  IF items = <<>> THEN 0
  ELSE Head(items).quantity + SumQuantity(Tail(items))

RECURSIVE SumPrice(_)
SumPrice(items) ==
  IF items = <<>> THEN 0
  ELSE Head(items).price * Head(items).quantity + SumPrice(Tail(items))

\* the `for item in cart['items']: if item['product_id'] == product_id: break`
\* loop: index of the first matching line, 0 when there is none
FindItem(items, product_id) ==
  IF \E i \in 1..Len(items) : items[i].product_id = product_id
  THEN CHOOSE i \in 1..Len(items) :
         /\ items[i].product_id = product_id
         /\ \A j \in 1..(i - 1) : items[j].product_id # product_id
  ELSE 0

\* list.remove(x): drops the first element equal to x
ListRemove(items, x) ==
  IF \E i \in 1..Len(items) : items[i] = x
  THEN LET k == CHOOSE i \in 1..Len(items) :
                  /\ items[i] = x
                  /\ \A j \in 1..(i - 1) : items[j] # x
       IN [i \in 1..(Len(items) - 1) |-> IF i < k THEN items[i] ELSE items[i + 1]]
  ELSE items

\* a recalculation that counts the lines instead of summing their quantities
RecalculateCountingLines(items) ==
  [items |-> items,
   total_items |-> Len(items),
   total_price |-> SumPrice(items)]

\* "Recalculate totals"
Recalculate(items) ==
  [items |-> items,
   total_items |-> SumQuantity(items),
   total_price |-> SumPrice(items)]

QuantityOf(items, product_id) ==
  IF FindItem(items, product_id) = 0 THEN 0
  ELSE items[FindItem(items, product_id)].quantity

\* validate_cart_item letting a quantity of zero through
validate_cart_item_from_zero(prods, product_id, quantity) ==
  IF quantity < 0 THEN [valid |-> FALSE, error |-> ErrMinQuantity]
  ELSE IF quantity > MAX_QUANTITY THEN [valid |-> FALSE, error |-> ErrMaxQuantity]
  ELSE IF ~(product_id \in ProductIds /\ prods[product_id].present)
       THEN [valid |-> FALSE, error |-> ErrProductNotFound]
  ELSE IF prods[product_id].stock < quantity
       THEN [valid |-> FALSE, error |-> ErrStock]
  ELSE [valid |-> TRUE, error |-> NoError]

\* validate_cart_item refusing a quantity equal to the stock
validate_cart_item_strict_stock(prods, product_id, quantity) ==
  IF quantity < 1 THEN [valid |-> FALSE, error |-> ErrMinQuantity]
  ELSE IF quantity > MAX_QUANTITY THEN [valid |-> FALSE, error |-> ErrMaxQuantity]
  ELSE IF ~(product_id \in ProductIds /\ prods[product_id].present)
       THEN [valid |-> FALSE, error |-> ErrProductNotFound]
  ELSE IF prods[product_id].stock <= quantity
       THEN [valid |-> FALSE, error |-> ErrStock]
  ELSE [valid |-> TRUE, error |-> NoError]

(***************************************************************************)
(* SupabaseClient.validate_cart_item                                       *)
(***************************************************************************)
validate_cart_item(prods, product_id, quantity) ==
  IF quantity < 1 THEN [valid |-> FALSE, error |-> ErrMinQuantity]
  ELSE IF quantity > MAX_QUANTITY THEN [valid |-> FALSE, error |-> ErrMaxQuantity]
  ELSE IF ~(product_id \in ProductIds /\ prods[product_id].present)
       THEN [valid |-> FALSE, error |-> ErrProductNotFound]
  ELSE IF prods[product_id].stock < quantity
       THEN [valid |-> FALSE, error |-> ErrStock]
  ELSE [valid |-> TRUE, error |-> NoError]

Fail(hc, c, err) ==
  [success |-> FALSE, error |-> err, has_cart |-> hc, cart |-> c]

Ok(c) ==
  [success |-> TRUE, error |-> NoError, has_cart |-> TRUE, cart |-> c]

\* api_cart_add without the search for the product's line: every add
\* appends a line
CartAddAlwaysAppending(prods, lg, hc, c, product_id, quantity) ==
  IF ~lg THEN Fail(hc, c, ErrLogin)
  ELSE IF product_id = 0 THEN Fail(hc, c, ErrIdRequired)
  ELSE
    LET validation == validate_cart_item(prods, product_id, quantity) IN
    IF ~validation.valid THEN Fail(hc, c, validation.error)
    ELSE
      LET c1 == IF hc THEN c ELSE EmptyCart IN
      Ok(Recalculate(Append(c1.items,
                [product_id |-> product_id,
                 price |-> prods[product_id].price,
                 quantity |-> quantity])))

\* api_cart_add re-validating the line's quantity with the request's
\* quantity counted twice
CartAddCountingTwice(prods, lg, hc, c, product_id, quantity) ==
  IF ~lg THEN Fail(hc, c, ErrLogin)
  ELSE IF product_id = 0 THEN Fail(hc, c, ErrIdRequired)
  ELSE
    LET validation == validate_cart_item(prods, product_id, quantity) IN
    IF ~validation.valid THEN Fail(hc, c, validation.error)
    ELSE
      LET c1 == IF hc THEN c ELSE EmptyCart
          k == FindItem(c1.items, product_id)
      IN
      IF k # 0
      THEN LET new_quantity == c1.items[k].quantity + quantity
               revalidation == validate_cart_item(prods, product_id, new_quantity + quantity)
           IN IF ~revalidation.valid
              THEN Fail(TRUE, c1, revalidation.error)
              ELSE Ok(Recalculate([c1.items EXCEPT ![k].quantity = new_quantity]))
      ELSE Ok(Recalculate(Append(c1.items,
                [product_id |-> product_id,
                 price |-> prods[product_id].price,
                 quantity |-> quantity])))

\* api_cart_add storing the combined quantity before it is re-validated
CartAddStoringBeforeRevalidation(prods, lg, hc, c, product_id, quantity) ==
  IF ~lg THEN Fail(hc, c, ErrLogin)
  ELSE IF product_id = 0 THEN Fail(hc, c, ErrIdRequired)
  ELSE
    LET validation == validate_cart_item(prods, product_id, quantity) IN
    IF ~validation.valid THEN Fail(hc, c, validation.error)
    ELSE
      LET c1 == IF hc THEN c ELSE EmptyCart
          k == FindItem(c1.items, product_id)
      IN
      IF k # 0
      THEN LET new_quantity == c1.items[k].quantity + quantity
               revalidation == validate_cart_item(prods, product_id, new_quantity)
               stored == [c1.items EXCEPT ![k].quantity = new_quantity]
           IN IF ~revalidation.valid
              THEN Fail(TRUE, [c1 EXCEPT !.items = stored], revalidation.error)
              ELSE Ok(Recalculate(stored))
      ELSE Ok(Recalculate(Append(c1.items,
                [product_id |-> product_id,
                 price |-> prods[product_id].price,
                 quantity |-> quantity])))

\* api_cart_add overwriting the quantity of an existing line
CartAddOverwriting(prods, lg, hc, c, product_id, quantity) ==
  IF ~lg THEN Fail(hc, c, ErrLogin)
  ELSE IF product_id = 0 THEN Fail(hc, c, ErrIdRequired)
  ELSE
    LET validation == validate_cart_item(prods, product_id, quantity) IN
    IF ~validation.valid THEN Fail(hc, c, validation.error)
    ELSE
      LET c1 == IF hc THEN c ELSE EmptyCart
          k == FindItem(c1.items, product_id)
      IN
      IF k # 0
      THEN Ok(Recalculate([c1.items EXCEPT ![k].quantity = quantity]))
      ELSE Ok(Recalculate(Append(c1.items,
                [product_id |-> product_id,
                 price |-> prods[product_id].price,
                 quantity |-> quantity])))

\* api_cart_add without the re-validation of the combined quantity
CartAddWithoutRevalidation(prods, lg, hc, c, product_id, quantity) ==
  IF ~lg THEN Fail(hc, c, ErrLogin)
  ELSE IF product_id = 0 THEN Fail(hc, c, ErrIdRequired)
  ELSE
    LET validation == validate_cart_item(prods, product_id, quantity) IN
    IF ~validation.valid THEN Fail(hc, c, validation.error)
    ELSE
      LET c1 == IF hc THEN c ELSE EmptyCart
          k == FindItem(c1.items, product_id)
      IN
      IF k # 0
      THEN Ok(Recalculate([c1.items EXCEPT
                             ![k].quantity = c1.items[k].quantity + quantity]))
      ELSE Ok(Recalculate(Append(c1.items,
                [product_id |-> product_id,
                 price |-> prods[product_id].price,
                 quantity |-> quantity])))

(***************************************************************************)
(* api_cart_add as a function of the session and the products table: the   *)
(* response and the session's cart when the handler returns.               *)
(***************************************************************************)
CartAdd(prods, lg, hc, c, product_id, quantity) ==
  IF ~lg THEN Fail(hc, c, ErrLogin)
  ELSE IF product_id = 0 THEN Fail(hc, c, ErrIdRequired)
  ELSE
    LET validation == validate_cart_item(prods, product_id, quantity) IN
    IF ~validation.valid THEN Fail(hc, c, validation.error)
    ELSE
      \* "Initialize cart if it doesn't exist"
      LET c1 == IF hc THEN c ELSE EmptyCart
          k == FindItem(c1.items, product_id)
      IN
      IF k # 0
      THEN LET new_quantity == c1.items[k].quantity + quantity
               revalidation == validate_cart_item(prods, product_id, new_quantity)
           IN IF ~revalidation.valid
              THEN Fail(TRUE, c1, revalidation.error)
              ELSE Ok(Recalculate([c1.items EXCEPT ![k].quantity = new_quantity]))
      ELSE Ok(Recalculate(Append(c1.items,
                [product_id |-> product_id,
                 price |-> prods[product_id].price,
                 quantity |-> quantity])))

\* api_cart_update adding the requested quantity to the line
CartUpdateAdding(prods, lg, hc, c, product_id, quantity) ==
  IF ~lg THEN Fail(hc, c, ErrLogin)
  ELSE IF product_id = 0 THEN Fail(hc, c, ErrIdQtyRequired)
  ELSE IF ~hc THEN Fail(hc, c, ErrCartEmpty)
  ELSE
    LET k == FindItem(c.items, product_id) IN
    IF k = 0 THEN Fail(hc, c, ErrItemNotFound)
    ELSE IF quantity <= 0
         THEN Ok(Recalculate(ListRemove(c.items, c.items[k])))
    ELSE LET validation == validate_cart_item(prods, product_id, quantity) IN
         IF ~validation.valid THEN Fail(hc, c, validation.error)
         ELSE Ok(Recalculate([c.items EXCEPT
                                ![k].quantity = c.items[k].quantity + quantity]))

\* api_cart_update keeping the line of a quantity <= 0, at quantity 0
CartUpdateZeroingLine(prods, lg, hc, c, product_id, quantity) ==
  IF ~lg THEN Fail(hc, c, ErrLogin)
  ELSE IF product_id = 0 THEN Fail(hc, c, ErrIdQtyRequired)
  ELSE IF ~hc THEN Fail(hc, c, ErrCartEmpty)
  ELSE
    LET k == FindItem(c.items, product_id) IN
    IF k = 0 THEN Fail(hc, c, ErrItemNotFound)
    ELSE IF quantity <= 0
         THEN Ok(Recalculate([c.items EXCEPT ![k].quantity = 0]))
    ELSE LET validation == validate_cart_item(prods, product_id, quantity) IN
         IF ~validation.valid THEN Fail(hc, c, validation.error)
         ELSE Ok(Recalculate([c.items EXCEPT ![k].quantity = quantity]))

\* api_cart_update storing the quantity without validating it
CartUpdateWithoutValidation(prods, lg, hc, c, product_id, quantity) ==
  IF ~lg THEN Fail(hc, c, ErrLogin)
  ELSE IF product_id = 0 THEN Fail(hc, c, ErrIdQtyRequired)
  ELSE IF ~hc THEN Fail(hc, c, ErrCartEmpty)
  ELSE
    LET k == FindItem(c.items, product_id) IN
    IF k = 0 THEN Fail(hc, c, ErrItemNotFound)
    ELSE IF quantity <= 0
         THEN Ok(Recalculate(ListRemove(c.items, c.items[k])))
    ELSE Ok(Recalculate([c.items EXCEPT ![k].quantity = quantity]))

\* api_cart_remove reporting success when no line matches
CartRemoveIgnoringMissing(lg, hc, c, product_id) ==
  IF ~lg THEN Fail(hc, c, ErrLogin)
  ELSE IF product_id = 0 THEN Fail(hc, c, ErrIdRequired)
  ELSE IF ~hc THEN Fail(hc, c, ErrCartEmpty)
  ELSE
    LET k == FindItem(c.items, product_id) IN
    IF k = 0 THEN Ok(Recalculate(c.items))
    ELSE Ok(Recalculate(ListRemove(c.items, c.items[k])))

(***************************************************************************)
(* api_cart_update, api_cart_remove and api_cart_clear, likewise.          *)
(***************************************************************************)
CartUpdate(prods, lg, hc, c, product_id, quantity) ==
  IF ~lg THEN Fail(hc, c, ErrLogin)
  ELSE IF product_id = 0 THEN Fail(hc, c, ErrIdQtyRequired)
  ELSE IF ~hc THEN Fail(hc, c, ErrCartEmpty)
  ELSE
    LET k == FindItem(c.items, product_id) IN
    IF k = 0 THEN Fail(hc, c, ErrItemNotFound)
    ELSE IF quantity <= 0
         THEN Ok(Recalculate(ListRemove(c.items, c.items[k])))
    ELSE LET validation == validate_cart_item(prods, product_id, quantity) IN
         IF ~validation.valid THEN Fail(hc, c, validation.error)
         ELSE Ok(Recalculate([c.items EXCEPT ![k].quantity = quantity]))

\* api_cart_remove taking out the first line of the cart, whichever it is
CartRemoveFirstLine(lg, hc, c, product_id) ==
  IF ~lg THEN Fail(hc, c, ErrLogin)
  ELSE IF product_id = 0 THEN Fail(hc, c, ErrIdRequired)
  ELSE IF ~hc THEN Fail(hc, c, ErrCartEmpty)
  ELSE
    LET k == FindItem(c.items, product_id) IN
    IF k = 0 THEN Fail(hc, c, ErrItemNotFound)
    ELSE Ok(Recalculate(Tail(c.items)))

CartRemove(lg, hc, c, product_id) ==
  IF ~lg THEN Fail(hc, c, ErrLogin)
  ELSE IF product_id = 0 THEN Fail(hc, c, ErrIdRequired)
  ELSE IF ~hc THEN Fail(hc, c, ErrCartEmpty)
  ELSE
    LET k == FindItem(c.items, product_id) IN
    IF k = 0 THEN Fail(hc, c, ErrItemNotFound)
    ELSE Ok(Recalculate(ListRemove(c.items, c.items[k])))

\* api_cart_clear refusing a session without a cart, as update and remove do
CartClearRequiringCart(lg, hc, c) ==
  IF ~lg THEN Fail(hc, c, ErrLogin)
  ELSE IF ~hc THEN Fail(hc, c, ErrCartEmpty)
  ELSE Ok(EmptyCart)

CartClear(lg, hc, c) ==
  IF ~lg THEN Fail(hc, c, ErrLogin)
  ELSE Ok(EmptyCart)

(***************************************************************************)
(* Error messages of the order handlers.                                   *)
(***************************************************************************)
ErrLoginFirst == "Please log in first"
ErrSessionInvalid == "User session invalid"
ErrAddressRequired == "Shipping address is required"
ErrNoSellerItems == "No items for this seller"
ErrUserNotFound == "User not found"
ErrCreateFailed == "Failed to create order for product"
ErrAdminRequired == "Admin access required"
ErrStatusRequired == "Status is required"
ErrInvalidStatus == "Invalid status"
ErrOrderNotFound == "Order not found"
ErrSameStatus == "Order is already S"
ErrIllegalTransition == "Cannot change status from S to T"
ErrUpdateFailed == "Failed to update order status in database"
ErrSellerRequired == "Seller access required"
ErrNotYourStore == "You can only update orders from your store"
ErrSellerUpdateFailed == "Failed to update order status"

\* valid_statuses of admin_update_order_status
admin_valid_statuses ==
  {"pending", "processing", "on_delivery", "completed", "cancelled"}

\* valid_statuses of seller_update_order_status
seller_valid_statuses ==
  {"pending", "processing", "shipped", "completed", "cancelled"}

\* status_progressions letting a pending order go straight out for delivery
status_progressions_skipping(current_status) ==
  CASE current_status = "pending" -> {"processing", "on_delivery", "cancelled"}
    [] current_status = "processing" -> {"on_delivery", "cancelled"}
    [] current_status = "on_delivery" -> {"completed", "cancelled"}
    [] OTHER -> {}

\* status_progressions.get(current_status, [])
status_progressions(current_status) ==
  CASE current_status = "pending" -> {"processing", "cancelled"}
    [] current_status = "processing" -> {"on_delivery", "cancelled"}
    [] current_status = "on_delivery" -> {"completed", "cancelled"}
    [] current_status = "completed" -> {}
    [] current_status = "cancelled" -> {}
    [] OTHER -> {}

\* the status values a request may carry ("": none given)
StatusInputs == {""} \cup admin_valid_statuses \cup seller_valid_statuses

(***************************************************************************)
(* The orders table of the database.  db_ok is FALSE when the call to the  *)
(* database raises; both methods catch the exception and report failure.   *)
(***************************************************************************)
\* get_order_by_id returns {} for an id without a row
OrderExists(tbl, order_id) == order_id \in DOMAIN tbl

\* update_order_status without the filter on the id: every row is updated
update_order_status_every_row(tbl, order_id, status, db_ok) ==
  IF db_ok /\ OrderExists(tbl, order_id)
  THEN [ok |-> TRUE, orders |-> [i \in DOMAIN tbl |-> [tbl[i] EXCEPT !.status = status]],
        writes |-> Len(tbl)]
  ELSE [ok |-> FALSE, orders |-> tbl, writes |-> 0]

\* update_order_status: update({'status': status}).eq('id', order_id),
\* True when a row was updated
update_order_status(tbl, order_id, status, db_ok) ==
  IF db_ok /\ OrderExists(tbl, order_id)
  THEN [ok |-> TRUE, orders |-> [tbl EXCEPT ![order_id].status = status], writes |-> 1]
  ELSE [ok |-> FALSE, orders |-> tbl, writes |-> 0]

\* create_order with the status of the earlier definition of the method
create_order_processed(tbl, order_data, db_ok) ==
  IF db_ok
  THEN [ok |-> TRUE,
        orders |-> Append(tbl, [status |-> "processed",
                                total_amount |-> order_data.total_amount,
                                items |-> order_data.items,
                                seller_id |-> 0])]
  ELSE [ok |-> FALSE, orders |-> tbl]

\* create_order: inserts a row with the status, the amount and the items of
\* order_data and no order-level seller; None when the insert fails
create_order(tbl, order_data, db_ok) ==
  IF db_ok
  THEN [ok |-> TRUE,
        orders |-> Append(tbl, [status |-> order_data.status,
                                total_amount |-> order_data.total_amount,
                                items |-> order_data.items,
                                seller_id |-> 0])]
  ELSE [ok |-> FALSE, orders |-> tbl]

\* order_data with the price of one unit as the amount
OrderDataUnitPrice(item) ==
  [status |-> "pending",
   total_amount |-> item.price,
   items |-> <<item>>]

\* the order_data the checkout handlers build for one item
OrderData(item) ==
  [status |-> "pending",
   total_amount |-> item.quantity * item.price,
   items |-> <<item>>]

\* "Create separate order for each product": one create_order per item, in
\* order, returning at the first that fails (fail_at; 0: none fails)
RECURSIVE CreateOrders(_, _, _, _)
CreateOrders(tbl, items, index, fail_at) ==
  IF index > Len(items) THEN [ok |-> TRUE, orders |-> tbl]
  ELSE LET created == create_order(tbl, OrderData(items[index]), index # fail_at) IN
       IF ~created.ok THEN [ok |-> FALSE, orders |-> tbl]
       ELSE CreateOrders(created.orders, items, index + 1, fail_at)

OrderFail(tbl, hc, c, err) ==
  [success |-> FALSE, error |-> err, orders |-> tbl, has_cart |-> hc, cart |-> c]

\* api_order_create: the response, the orders table and the session's cart
\* when the handler returns.  lg: is_logged_in(); phone: phone_number in the
\* session; address: a shipping address was given; user_found: the user row
\* of the phone number exists.
OrderCreate(tbl, lg, phone, hc, c, address, user_found, fail_at) ==
  IF ~lg THEN OrderFail(tbl, hc, c, ErrLoginFirst)
  ELSE IF ~phone THEN OrderFail(tbl, hc, c, ErrSessionInvalid)
  ELSE IF ~address THEN OrderFail(tbl, hc, c, ErrAddressRequired)
  ELSE
    LET cart_data == IF hc THEN c ELSE EmptyCart IN
    IF cart_data.items = <<>> \/ cart_data.total_items = 0
    THEN OrderFail(tbl, hc, c, ErrCartEmpty)
    ELSE IF ~user_found THEN OrderFail(tbl, hc, c, ErrUserNotFound)
    ELSE
      LET r == CreateOrders(tbl, cart_data.items, 1, fail_at) IN
      IF ~r.ok THEN OrderFail(r.orders, hc, c, ErrCreateFailed)
      ELSE [success |-> TRUE, error |-> NoError, orders |-> r.orders,
            has_cart |-> TRUE, cart |-> EmptyCart]

\* api_order_create_by_seller: the items come with the request
\* (seller_items); the session's cart is neither read nor written
OrderCreateBySeller(tbl, lg, phone, hc, c, address, seller_items, user_found, fail_at) ==
  IF ~lg THEN OrderFail(tbl, hc, c, ErrLoginFirst)
  ELSE IF ~phone THEN OrderFail(tbl, hc, c, ErrSessionInvalid)
  ELSE IF ~address THEN OrderFail(tbl, hc, c, ErrAddressRequired)
  ELSE IF seller_items = <<>> THEN OrderFail(tbl, hc, c, ErrNoSellerItems)
  ELSE IF ~user_found THEN OrderFail(tbl, hc, c, ErrUserNotFound)
  ELSE
    LET r == CreateOrders(tbl, seller_items, 1, fail_at) IN
    IF ~r.ok THEN OrderFail(r.orders, hc, c, ErrCreateFailed)
    ELSE [success |-> TRUE, error |-> NoError, orders |-> r.orders,
          has_cart |-> hc, cart |-> c]

StatusFail(tbl, err) ==
  [success |-> FALSE, error |-> err, orders |-> tbl, writes |-> 0]

\* admin_update_order_status writing the status before it checks the
\* progression
AdminUpdateOrderStatusWritingFirst(tbl, adm, order_id, new_status, db_ok) ==
  IF ~adm THEN StatusFail(tbl, ErrAdminRequired)
  ELSE IF new_status = "" THEN StatusFail(tbl, ErrStatusRequired)
  ELSE IF new_status \notin admin_valid_statuses THEN StatusFail(tbl, ErrInvalidStatus)
  ELSE IF ~OrderExists(tbl, order_id) THEN StatusFail(tbl, ErrOrderNotFound)
  ELSE
    LET current_status == tbl[order_id].status
        u == update_order_status(tbl, order_id, new_status, db_ok)
    IN
    IF current_status = new_status THEN StatusFail(tbl, ErrSameStatus)
    ELSE IF new_status \notin status_progressions(current_status)
    THEN [success |-> FALSE, error |-> ErrIllegalTransition,
          orders |-> u.orders, writes |-> u.writes]
    ELSE IF u.ok
    THEN [success |-> TRUE, error |-> NoError, orders |-> u.orders, writes |-> u.writes]
    ELSE StatusFail(tbl, ErrUpdateFailed)

\* admin_update_order_status: the response and the orders table when the
\* handler returns.  adm: session['is_admin'].
AdminUpdateOrderStatus(tbl, adm, order_id, new_status, db_ok) ==
  IF ~adm THEN StatusFail(tbl, ErrAdminRequired)
  ELSE IF new_status = "" THEN StatusFail(tbl, ErrStatusRequired)
  ELSE IF new_status \notin admin_valid_statuses THEN StatusFail(tbl, ErrInvalidStatus)
  ELSE IF ~OrderExists(tbl, order_id) THEN StatusFail(tbl, ErrOrderNotFound)
  ELSE
    LET current_status == tbl[order_id].status IN
    IF current_status = new_status THEN StatusFail(tbl, ErrSameStatus)
    ELSE IF new_status \notin status_progressions(current_status)
    THEN StatusFail(tbl, ErrIllegalTransition)
    ELSE
      LET u == update_order_status(tbl, order_id, new_status, db_ok) IN
      IF u.ok
      THEN [success |-> TRUE, error |-> NoError, orders |-> u.orders, writes |-> u.writes]
      ELSE StatusFail(tbl, ErrUpdateFailed)

\* seller_update_order_status: sid is session['seller_id'] of a session with
\* user_type 'seller' (0: not a seller session)
SellerUpdateOrderStatus(tbl, sid, order_id, new_status, db_ok) ==
  IF sid = 0 THEN StatusFail(tbl, ErrSellerRequired)
  ELSE IF new_status = "" THEN StatusFail(tbl, ErrStatusRequired)
  ELSE IF new_status \notin seller_valid_statuses THEN StatusFail(tbl, ErrInvalidStatus)
  ELSE IF ~OrderExists(tbl, order_id) THEN StatusFail(tbl, ErrOrderNotFound)
  ELSE IF tbl[order_id].seller_id # sid THEN StatusFail(tbl, ErrNotYourStore)
  ELSE
    LET u == update_order_status(tbl, order_id, new_status, db_ok) IN
    IF u.ok
    THEN [success |-> TRUE, error |-> NoError, orders |-> u.orders, writes |-> u.writes]
    ELSE StatusFail(tbl, ErrSellerUpdateFailed)

(***************************************************************************)
(* Two requests to admin_update_order_status running side by side: a       *)
(* request reads the order and checks the transition, and writes the       *)
(* status in a later step.                                                 *)
(***************************************************************************)
RequestSlots == 1..AdminRequests

Idle == [pc |-> "idle", order_id |-> 0, status |-> ""]

(***************************************************************************)
(* AuthService: the one-time codes of the otp_codes table.                 *)
(***************************************************************************)
MAX_OTP_ATTEMPTS == 3
OTP_EXPIRY_MINUTES == 5

ErrPhoneFormat == "Invalid phone number format"
ErrNoOtp == "No valid OTP found"
ErrOtpExpired == "OTP has expired"
ErrMaxAttempts == "Maximum attempts exceeded"
ErrInvalidOtp == "Invalid OTP code"
ErrDatabase == "database error"

\* the formatted phone numbers (+63 and ten digits), by subscriber
PhoneNumbers == {1}

\* the phone numbers a caller passes: <<form, subscriber>>, the form being
\* the digits before the subscriber's ten ("63", "0") or one that
\* format_phone_number refuses
PhoneInputs == {"63", "0", "bad"} \X PhoneNumbers

\* the codes generate_otp may draw
OtpCodes == {1, 2}

\* format_phone_number: +63 and the ten digits, ValueError for another form
format_phone_number(phone_number) ==
  IF phone_number[1] \in {"63", "0"}
  THEN [ok |-> TRUE, phone |-> phone_number[2]]
  ELSE [ok |-> FALSE, phone |-> 0]

\* hash_otp: the SHA-256 digest of the code
hash_otp(otp_code) == <<"sha256", otp_code>>

OtpFail(tbl, err) == [success |-> FALSE, error |-> err, otp_codes |-> tbl]

\* store_otp at time t: deletes the rows of the number and inserts a row
\* with the hash, the expiry, no attempts and is_used 0
StoreOtp(tbl, phone_number, otp_code, t, db_ok) ==
  LET formatted == format_phone_number(phone_number) IN
  IF ~formatted.ok THEN OtpFail(tbl, ErrPhoneFormat)
  ELSE IF ~db_ok THEN OtpFail(tbl, ErrDatabase)
  ELSE [success |-> TRUE, error |-> NoError,
        otp_codes |-> [tbl EXCEPT ![formatted.phone] =
                         <<[otp_code_hash |-> hash_otp(otp_code),
                            expires_at |-> t + OTP_EXPIRY_MINUTES,
                            attempts |-> 0,
                            is_used |-> FALSE]>>]]

\* SELECT ... WHERE phone_number = ? AND is_used = 0 ORDER BY created_at
\* DESC LIMIT 1: the index of the latest unused row, 0 when there is none
RECURSIVE LatestUnused(_, _)
LatestUnused(rows, k) ==
  IF k = 0 THEN 0
  ELSE IF ~rows[k].is_used THEN k
  ELSE LatestUnused(rows, k - 1)

\* verify_otp accepting attempts up to and including the maximum
VerifyOtpOneAttemptMore(tbl, phone_number, otp_code, t, db_ok) ==
  LET formatted == format_phone_number(phone_number) IN
  IF ~formatted.ok THEN OtpFail(tbl, ErrPhoneFormat)
  ELSE IF ~db_ok THEN OtpFail(tbl, ErrDatabase)
  ELSE
    LET rows == tbl[formatted.phone]
        k == LatestUnused(rows, Len(rows))
    IN
    IF k = 0 THEN OtpFail(tbl, ErrNoOtp)
    ELSE IF t > rows[k].expires_at THEN OtpFail(tbl, ErrOtpExpired)
    ELSE IF rows[k].attempts > MAX_OTP_ATTEMPTS THEN OtpFail(tbl, ErrMaxAttempts)
    ELSE IF hash_otp(otp_code) = rows[k].otp_code_hash
    THEN [success |-> TRUE, error |-> NoError,
          otp_codes |-> [tbl EXCEPT ![formatted.phone][k].is_used = TRUE]]
    ELSE [success |-> FALSE, error |-> ErrInvalidOtp,
          otp_codes |-> [tbl EXCEPT ![formatted.phone][k].attempts = rows[k].attempts + 1]]

\* verify_otp without the update that marks the code as used
VerifyOtpNotMarkingUsed(tbl, phone_number, otp_code, t, db_ok) ==
  LET formatted == format_phone_number(phone_number) IN
  IF ~formatted.ok THEN OtpFail(tbl, ErrPhoneFormat)
  ELSE IF ~db_ok THEN OtpFail(tbl, ErrDatabase)
  ELSE
    LET rows == tbl[formatted.phone]
        k == LatestUnused(rows, Len(rows))
    IN
    IF k = 0 THEN OtpFail(tbl, ErrNoOtp)
    ELSE IF t > rows[k].expires_at THEN OtpFail(tbl, ErrOtpExpired)
    ELSE IF rows[k].attempts >= MAX_OTP_ATTEMPTS THEN OtpFail(tbl, ErrMaxAttempts)
    ELSE IF hash_otp(otp_code) = rows[k].otp_code_hash
    THEN [success |-> TRUE, error |-> NoError, otp_codes |-> tbl]
    ELSE [success |-> FALSE, error |-> ErrInvalidOtp,
          otp_codes |-> [tbl EXCEPT ![formatted.phone][k].attempts = rows[k].attempts + 1]]

\* verify_otp at time t
VerifyOtp(tbl, phone_number, otp_code, t, db_ok) ==
  LET formatted == format_phone_number(phone_number) IN
  IF ~formatted.ok THEN OtpFail(tbl, ErrPhoneFormat)
  ELSE IF ~db_ok THEN OtpFail(tbl, ErrDatabase)
  ELSE
    LET rows == tbl[formatted.phone]
        k == LatestUnused(rows, Len(rows))
    IN
    IF k = 0 THEN OtpFail(tbl, ErrNoOtp)
    ELSE IF t > rows[k].expires_at THEN OtpFail(tbl, ErrOtpExpired)
    ELSE IF rows[k].attempts >= MAX_OTP_ATTEMPTS THEN OtpFail(tbl, ErrMaxAttempts)
    ELSE IF hash_otp(otp_code) = rows[k].otp_code_hash
    THEN [success |-> TRUE, error |-> NoError,
          otp_codes |-> [tbl EXCEPT ![formatted.phone][k].is_used = TRUE]]
    ELSE [success |-> FALSE, error |-> ErrInvalidOtp,
          otp_codes |-> [tbl EXCEPT ![formatted.phone][k].attempts = rows[k].attempts + 1]]

\* the rows cleanup_expired_otps keeps: DELETE ... WHERE expires_at < now
RECURSIVE Unexpired(_, _)
Unexpired(rows, t) ==
  IF rows = <<>> THEN <<>>
  ELSE IF Head(rows).expires_at < t THEN Unexpired(Tail(rows), t)
  ELSE <<Head(rows)>> \o Unexpired(Tail(rows), t)

\* is_logged_in(): a customer login (user_id and phone_number in the
\* session) or a seller login (seller_id and user_type 'seller')
is_logged_in == logged_in \/ seller_id # 0

Init ==
  /\ products = [p \in ProductIds |->
                   [present |-> TRUE, price |-> Price(p),
                    stock |-> IF p = BulkProduct THEN BulkStock ELSE RetailStock]]
  /\ logged_in = FALSE
  /\ has_cart = FALSE
  /\ cart = EmptyCart
  /\ request = [op |-> "none", product_id |-> 0, quantity |-> 0]
  /\ response = [success |-> TRUE, error |-> NoError]
  /\ prior = 0
  /\ zeroed = {}
  /\ orders = InitialOrders
  /\ is_admin = FALSE
  /\ seller_id = 0
  /\ order_request = [op |-> "none", order_id |-> 0, status |-> ""]
  /\ order_response = [success |-> TRUE, error |-> NoError]
  /\ writes = 0
  /\ inflight = [r \in RequestSlots |-> Idle]
  /\ otp_codes = [p \in PhoneNumbers |-> <<>>]
  /\ now = 0
  /\ otp_request = [op |-> "none", phone_number |-> <<"", 0>>, otp_code |-> 0]
  /\ otp_response = [success |-> TRUE, error |-> NoError]
  /\ otp_history = [p \in PhoneNumbers |-> [verified |-> 0, wrong |-> 0]]

api_cart_add(product_id, quantity) ==
  LET r == CartAdd(products, is_logged_in, has_cart, cart, product_id, quantity) IN
  /\ has_cart' = r.has_cart
  /\ cart' = r.cart
  /\ prior' = QuantityOf(cart.items, product_id)
  /\ request' = [op |-> "add", product_id |-> product_id, quantity |-> quantity]
  /\ response' = [success |-> r.success, error |-> r.error]
  /\ zeroed' = IF r.success THEN zeroed \ {product_id} ELSE zeroed
  /\ UNCHANGED <<products, logged_in>>
  /\ UNCHANGED orderVars
  /\ UNCHANGED <<inflight, otpVars>>

api_cart_update(product_id, quantity) ==
  LET r == CartUpdate(products, is_logged_in, has_cart, cart, product_id, quantity) IN
  /\ has_cart' = r.has_cart
  /\ cart' = r.cart
  /\ prior' = QuantityOf(cart.items, product_id)
  /\ request' = [op |-> "update", product_id |-> product_id, quantity |-> quantity]
  /\ response' = [success |-> r.success, error |-> r.error]
  /\ zeroed' = IF r.success /\ quantity <= 0 THEN zeroed \cup {product_id} ELSE zeroed
  /\ UNCHANGED <<products, logged_in>>
  /\ UNCHANGED orderVars
  /\ UNCHANGED <<inflight, otpVars>>

api_cart_remove(product_id) ==
  LET r == CartRemove(is_logged_in, has_cart, cart, product_id) IN
  /\ has_cart' = r.has_cart
  /\ cart' = r.cart
  /\ prior' = QuantityOf(cart.items, product_id)
  /\ request' = [op |-> "remove", product_id |-> product_id, quantity |-> 0]
  /\ response' = [success |-> r.success, error |-> r.error]
  /\ UNCHANGED <<products, logged_in, zeroed>>
  /\ UNCHANGED orderVars
  /\ UNCHANGED <<inflight, otpVars>>

api_cart_clear ==
  LET r == CartClear(is_logged_in, has_cart, cart) IN
  /\ has_cart' = r.has_cart
  /\ cart' = r.cart
  /\ prior' = 0
  /\ request' = [op |-> "clear", product_id |-> 0, quantity |-> 0]
  /\ response' = [success |-> r.success, error |-> r.error]
  /\ UNCHANGED <<products, logged_in, zeroed>>
  /\ UNCHANGED orderVars
  /\ UNCHANGED <<inflight, otpVars>>

\* face_login with a customer's code: the session gets user_id and
\* phone_number, user_type 'customer' and seller_id None
face_login ==
  /\ ~logged_in
  /\ logged_in' = TRUE
  /\ seller_id' = 0
  /\ UNCHANGED <<products, has_cart, cart, request, response, prior, zeroed>>
  /\ UNCHANGED <<orders, is_admin, order_request, order_response, writes>>
  /\ UNCHANGED <<inflight, otpVars>>

\* logout: session.clear()
logout ==
  /\ logged_in \/ has_cart \/ seller_id # 0 \/ is_admin
  /\ logged_in' = FALSE
  /\ has_cart' = FALSE
  /\ cart' = EmptyCart
  /\ seller_id' = 0
  /\ is_admin' = FALSE
  /\ UNCHANGED <<products, request, response, prior, zeroed>>
  /\ UNCHANGED <<orders, order_request, order_response, writes>>
  /\ UNCHANGED <<inflight, otpVars>>

\* seller_logout: pops the login keys and leaves 'cart' in the session
seller_logout ==
  /\ logged_in \/ seller_id # 0
  /\ logged_in' = FALSE
  /\ seller_id' = 0
  /\ UNCHANGED <<products, has_cart, cart, request, response, prior, zeroed>>
  /\ UNCHANGED <<orders, is_admin, order_request, order_response, writes>>
  /\ UNCHANGED <<inflight, otpVars>>

\* admin_edit_product (another session): a new stock for an existing product
\* (its other fields keep their values)
admin_edit_product(product_id, stock) ==
  /\ products[product_id].present
  /\ products[product_id].stock # stock
  /\ products' = [products EXCEPT ![product_id].stock = stock]
  /\ UNCHANGED <<logged_in, has_cart, cart, request, response, prior, zeroed>>
  /\ UNCHANGED orderVars
  /\ UNCHANGED <<inflight, otpVars>>

\* admin_delete_product (another session)
admin_delete_product(product_id) ==
  /\ products[product_id].present
  /\ products' = [products EXCEPT ![product_id] =
                    [present |-> FALSE, price |-> 0, stock |-> 0]]
  /\ UNCHANGED <<logged_in, has_cart, cart, request, response, prior, zeroed>>
  /\ UNCHANGED orderVars
  /\ UNCHANGED <<inflight, otpVars>>

(***************************************************************************)
(* The order handlers and the logins they depend on.                       *)
(***************************************************************************)
\* face_login with a seller's code: the session gets seller_id and
\* user_type 'seller'; user_id and phone_number stay as they were
face_login_seller ==
  /\ seller_id = 0
  /\ seller_id' = SellerId
  /\ UNCHANGED <<products, logged_in, has_cart, cart, request, response, prior, zeroed>>
  /\ UNCHANGED <<orders, is_admin, order_request, order_response, writes>>
  /\ UNCHANGED <<inflight, otpVars>>

\* admin_login with the right credentials
admin_login ==
  /\ ~is_admin
  /\ is_admin' = TRUE
  /\ UNCHANGED <<products, logged_in, has_cart, cart, request, response, prior, zeroed>>
  /\ UNCHANGED <<orders, seller_id, order_request, order_response, writes>>
  /\ UNCHANGED <<inflight, otpVars>>

\* admin_logout
admin_logout ==
  /\ is_admin
  /\ is_admin' = FALSE
  /\ UNCHANGED <<products, logged_in, has_cart, cart, request, response, prior, zeroed>>
  /\ UNCHANGED <<orders, seller_id, order_request, order_response, writes>>
  /\ UNCHANGED <<inflight, otpVars>>

api_order_create(address, user_found, fail_at) ==
  LET r == OrderCreate(orders, is_logged_in, logged_in, has_cart, cart,
                       address, user_found, fail_at) IN
  /\ Len(r.orders) <= Len(InitialOrders) + MaxOrders
  /\ orders' = r.orders
  /\ has_cart' = r.has_cart
  /\ cart' = r.cart
  /\ order_request' = [op |-> "create", order_id |-> 0, status |-> ""]
  /\ order_response' = [success |-> r.success, error |-> r.error]
  /\ writes' = Len(r.orders) - Len(orders)
  /\ UNCHANGED <<products, logged_in, request, response, prior, zeroed>>
  /\ UNCHANGED <<is_admin, seller_id>>
  /\ UNCHANGED <<inflight, otpVars>>

api_order_create_by_seller(address, seller_items, user_found, fail_at) ==
  LET r == OrderCreateBySeller(orders, is_logged_in, logged_in, has_cart, cart,
                               address, seller_items, user_found, fail_at) IN
  /\ Len(r.orders) <= Len(InitialOrders) + MaxOrders
  /\ orders' = r.orders
  /\ has_cart' = r.has_cart
  /\ cart' = r.cart
  /\ order_request' = [op |-> "create_by_seller", order_id |-> 0, status |-> ""]
  /\ order_response' = [success |-> r.success, error |-> r.error]
  /\ writes' = Len(r.orders) - Len(orders)
  /\ UNCHANGED <<products, logged_in, request, response, prior, zeroed>>
  /\ UNCHANGED <<is_admin, seller_id>>
  /\ UNCHANGED <<inflight, otpVars>>

admin_update_order_status(order_id, new_status, db_ok) ==
  LET r == AdminUpdateOrderStatus(orders, is_admin, order_id, new_status, db_ok) IN
  /\ orders' = r.orders
  /\ order_request' = [op |-> "admin_update", order_id |-> order_id, status |-> new_status]
  /\ order_response' = [success |-> r.success, error |-> r.error]
  /\ writes' = r.writes
  /\ UNCHANGED <<products, logged_in, has_cart, cart, request, response, prior, zeroed>>
  /\ UNCHANGED <<is_admin, seller_id>>
  /\ UNCHANGED <<inflight, otpVars>>

seller_update_order_status(order_id, new_status, db_ok) ==
  LET r == SellerUpdateOrderStatus(orders, seller_id, order_id, new_status, db_ok) IN
  /\ orders' = r.orders
  /\ order_request' = [op |-> "seller_update", order_id |-> order_id, status |-> new_status]
  /\ order_response' = [success |-> r.success, error |-> r.error]
  /\ writes' = r.writes
  /\ UNCHANGED <<products, logged_in, has_cart, cart, request, response, prior, zeroed>>
  /\ UNCHANGED <<is_admin, seller_id>>
  /\ UNCHANGED <<inflight, otpVars>>

Next ==
  \/ \E p \in RequestIds : \E q \in QtyInputs(p) : api_cart_add(p, q)
  \/ \E p \in RequestIds : \E q \in QtyInputs(p) : api_cart_update(p, q)
  \/ \E p \in RequestIds : api_cart_remove(p)
  \/ api_cart_clear
  \/ face_login
  \/ logout
  \/ seller_logout
  \/ \E p \in ProductIds : \E s \in StockInputs(p) : admin_edit_product(p, s)
  \/ \E p \in ProductIds : admin_delete_product(p)

Spec == Init /\ [][Next]_vars

(***************************************************************************)
(* The order status workflow: the admin and the seller panel working on    *)
(* the orders table, next to a customer who places orders.                 *)
(***************************************************************************)
\* the ids a status request may name: the rows and one id without a row
OrderIdInputs == 1..(Len(orders) + 1)

\* the items a create-by-seller request may carry
SellerItemsInputs ==
  {<<>>,
   <<[product_id |-> RetailProduct, price |-> Price(RetailProduct),
      quantity |-> RetailQty]>>,
   cart.items}

NextStatus ==
  \/ admin_login
  \/ admin_logout
  \/ face_login_seller
  \/ seller_logout
  \/ \E o \in OrderIdInputs : \E s \in StatusInputs : \E db_ok \in BOOLEAN :
       admin_update_order_status(o, s, db_ok)
  \/ \E o \in OrderIdInputs : \E s \in StatusInputs : \E db_ok \in BOOLEAN :
       seller_update_order_status(o, s, db_ok)

SpecStatus == Init /\ [][NextStatus]_vars

(***************************************************************************)
(* Checkout: a customer fills the cart and places orders.                  *)
(***************************************************************************)
\* the quantity a checkout session adds of a product
OrderQty(p) == IF p = BulkProduct THEN BulkQty ELSE RetailQty

NextCheckout ==
  \/ \E p \in ProductIds : api_cart_add(p, OrderQty(p))
  \/ face_login
  \/ face_login_seller
  \/ logout
  \/ \E s \in StockInputs(RetailProduct) : admin_edit_product(RetailProduct, s)
  \/ \E address, user_found \in BOOLEAN : \E fail_at \in 0..MaxOrders :
       api_order_create(address, user_found, fail_at)
  \/ \E address, user_found \in BOOLEAN : \E fail_at \in 0..MaxOrders :
       \E seller_items \in SellerItemsInputs :
         api_order_create_by_seller(address, seller_items, user_found, fail_at)

SpecCheckout == Init /\ [][NextCheckout]_vars

(***************************************************************************)
(* admin_update_order_status in two steps.                                 *)
(***************************************************************************)
cartAndSession == <<products, logged_in, has_cart, cart, request, response, prior,
                    zeroed, is_admin, seller_id>>

\* the request reads the order and checks the status and the transition:
\* a refused request answers at once, an accepted one goes on to the write
admin_update_order_status_validate(r, order_id, new_status) ==
  LET v == AdminUpdateOrderStatus(orders, is_admin, order_id, new_status, TRUE) IN
  /\ inflight[r] = Idle
  /\ IF v.success
     THEN /\ inflight' = [inflight EXCEPT ![r] =
                            [pc |-> "write", order_id |-> order_id, status |-> new_status]]
          /\ UNCHANGED <<order_request, order_response, writes>>
     ELSE /\ order_request' = [op |-> "admin_update", order_id |-> order_id,
                               status |-> new_status]
          /\ order_response' = [success |-> FALSE, error |-> v.error]
          /\ writes' = 0
          /\ UNCHANGED inflight
  /\ UNCHANGED orders
  /\ UNCHANGED cartAndSession
  /\ UNCHANGED otpVars

\* the request calls update_order_status and answers
admin_update_order_status_write(r, db_ok) ==
  LET u == update_order_status(orders, inflight[r].order_id, inflight[r].status, db_ok) IN
  /\ inflight[r].pc = "write"
  /\ orders' = u.orders
  /\ writes' = u.writes
  /\ order_request' = [op |-> "admin_update", order_id |-> inflight[r].order_id,
                       status |-> inflight[r].status]
  /\ order_response' = IF u.ok THEN [success |-> TRUE, error |-> NoError]
                       ELSE [success |-> FALSE, error |-> ErrUpdateFailed]
  /\ inflight' = [inflight EXCEPT ![r] = Idle]
  /\ UNCHANGED cartAndSession
  /\ UNCHANGED otpVars

NextRace ==
  \/ admin_login
  \/ \E r \in RequestSlots : \E o \in OrderIdInputs : \E s \in StatusInputs :
       admin_update_order_status_validate(r, o, s)
  \/ \E r \in RequestSlots : \E db_ok \in BOOLEAN :
       admin_update_order_status_write(r, db_ok)

SpecRace == Init /\ [][NextRace]_vars

(***************************************************************************)
(* The calls of AuthService.                                               *)
(***************************************************************************)
notOtpVars == <<products, logged_in, has_cart, cart, request, response, prior,
                zeroed, orders, is_admin, seller_id, order_request,
                order_response, writes, inflight>>

store_otp(phone_number, otp_code, db_ok) ==
  LET r == StoreOtp(otp_codes, phone_number, otp_code, now, db_ok)
      formatted == format_phone_number(phone_number)
  IN
  /\ otp_codes' = r.otp_codes
  /\ otp_request' = [op |-> "store", phone_number |-> phone_number, otp_code |-> otp_code]
  /\ otp_response' = [success |-> r.success, error |-> r.error]
  /\ otp_history' = IF r.success
                    THEN [otp_history EXCEPT ![formatted.phone] =
                            [verified |-> 0, wrong |-> 0]]
                    ELSE otp_history
  /\ UNCHANGED now
  /\ UNCHANGED notOtpVars

verify_otp(phone_number, otp_code, db_ok) ==
  LET r == VerifyOtp(otp_codes, phone_number, otp_code, now, db_ok)
      formatted == format_phone_number(phone_number)
      rows == otp_codes[formatted.phone]
  IN
  /\ otp_codes' = r.otp_codes
  /\ otp_request' = [op |-> "verify", phone_number |-> phone_number, otp_code |-> otp_code]
  /\ otp_response' = [success |-> r.success, error |-> r.error]
  /\ otp_history' =
       IF r.success
       THEN [otp_history EXCEPT ![formatted.phone].verified = otp_code]
       ELSE IF /\ formatted.ok /\ db_ok /\ rows # <<>>
               /\ rows[Len(rows)].otp_code_hash # hash_otp(otp_code)
               /\ otp_history[formatted.phone].wrong < MaxWrongCodes
       THEN [otp_history EXCEPT ![formatted.phone].wrong = @ + 1]
       ELSE otp_history
  /\ UNCHANGED now
  /\ UNCHANGED notOtpVars

cleanup_expired_otps ==
  /\ \E p \in PhoneNumbers : Unexpired(otp_codes[p], now) # otp_codes[p]
  /\ otp_codes' = [p \in PhoneNumbers |-> Unexpired(otp_codes[p], now)]
  /\ UNCHANGED <<now, otp_request, otp_response, otp_history>>
  /\ UNCHANGED notOtpVars

\* a minute passes
Tick ==
  /\ now < MaxClock
  /\ now' = now + 1
  /\ UNCHANGED <<otp_codes, otp_request, otp_response, otp_history>>
  /\ UNCHANGED notOtpVars

NextOtp ==
  \/ \E p \in PhoneInputs : \E c \in OtpCodes : \E db_ok \in BOOLEAN : store_otp(p, c, db_ok)
  \/ \E p \in PhoneInputs : \E c \in OtpCodes : \E db_ok \in BOOLEAN : verify_otp(p, c, db_ok)
  \/ cleanup_expired_otps
  \/ Tick

SpecOtp == Init /\ [][NextOtp]_vars

(***************************************************************************)
(* Properties of the cart.                                                 *)
(***************************************************************************)
HasLine(product_id) == has_cart /\ FindItem(cart.items, product_id) # 0

CartUnchanged == has_cart' = has_cart /\ cart' = cart

\* C1: after every cart request, successful or failed, the stored cart has
\* total_items equal to the sum of the quantities of its lines and
\* total_price equal to the sum of quantity * price of its lines.
C1_TotalsMatchLines ==
  /\ cart.total_items = SumQuantity(cart.items)
  /\ cart.total_price = SumPrice(cart.items)

\* a request has just succeeded on a cart of two lines
C1_Witness ==
  /\ request.op \in {"add", "update"}
  /\ response.success
  /\ Len(cart.items) = 2
  /\ cart.total_items > Len(cart.items)

\* C2: a failed add leaves the cart (its presence in the session, its lines,
\* their quantities and order, total_items and total_price) as it was; with
\* the retail product (price 100, stock RetailStock) at quantity RetailQty,
\* add(product, OverQty) fails for lack of stock and the totals stay
\* RetailQty and RetailQty * 100.
C2_FailedAddKeepsCart ==
  [][ /\ \A p \in RequestIds : \A q \in QtyInputs(p) :
          (api_cart_add(p, q) /\ ~response'.success) => CartUnchanged
      /\ ( /\ logged_in
           /\ has_cart
           /\ cart.items = <<[product_id |-> RetailProduct, price |-> 100,
                              quantity |-> RetailQty]>>
           /\ products[RetailProduct].present
           /\ products[RetailProduct].stock = RetailStock
           /\ RetailQty + OverQty > RetailStock
           /\ api_cart_add(RetailProduct, OverQty) )
        => /\ ~response'.success
           /\ response'.error \in OutOfStock
           /\ cart'.total_items = RetailQty
           /\ cart'.total_price = RetailQty * 100
    ]_vars

\* the retail product is in the cart at RetailQty and an add of OverQty has
\* just failed for lack of stock
C2_Witness ==
  /\ request = [op |-> "add", product_id |-> RetailProduct, quantity |-> OverQty]
  /\ ~response.success
  /\ response.error \in OutOfStock
  /\ prior = RetailQty
  /\ products[RetailProduct].stock = RetailStock
  /\ cart.total_items = RetailQty
  /\ cart.total_price = RetailQty * 100

\* C3: a successful add(P, q) adds q to the quantity of P's line when there
\* is one and creates no line; otherwise it appends one line for P with
\* quantity q; every other line keeps its content and position.
C3_AddIncrementsOrAppends ==
  [][ \A p \in RequestIds : \A q \in QtyInputs(p) :
        (api_cart_add(p, q) /\ response'.success) =>
          LET old == IF has_cart THEN cart.items ELSE <<>>
              k == FindItem(old, p)
          IN IF k # 0
             THEN /\ Len(cart'.items) = Len(old)
                  /\ cart'.items[k] = [old[k] EXCEPT !.quantity = old[k].quantity + q]
                  /\ \A i \in 1..Len(old) : i # k => cart'.items[i] = old[i]
             ELSE /\ Len(cart'.items) = Len(old) + 1
                  /\ SubSeq(cart'.items, 1, Len(old)) = old
                  /\ cart'.items[Len(old) + 1].product_id = p
                  /\ cart'.items[Len(old) + 1].quantity = q
    ]_vars

\* an add has just succeeded on a product that already had a line, in a cart
\* that holds another line too
C3_Witness ==
  /\ request.op = "add"
  /\ response.success
  /\ prior > 0
  /\ QuantityOf(cart.items, request.product_id) = prior + request.quantity
  /\ Len(cart.items) = 2

\* the outcome (success flag and cart) of add(p, q) issued twice in a row,
\* and of one add(p, n), from the current state
AddTwice(p, q) ==
  LET r1 == CartAdd(products, is_logged_in, has_cart, cart, p, q)
      r2 == CartAdd(products, is_logged_in, r1.has_cart, r1.cart, p, q)
  IN [success |-> r1.success /\ r2.success, has_cart |-> r2.has_cart, cart |-> r2.cart]

AddOnce(p, n) ==
  LET r == CartAdd(products, is_logged_in, has_cart, cart, p, n)
  IN [success |-> r.success, has_cart |-> r.has_cart, cart |-> r.cart]

\* the quantities add(p, q) is compared for
PairQuantities == 1..BulkQty

\* C4 (as claimed): whenever the stock of P is at least the quantity of P in
\* the cart plus 2q, with q >= 1, add(P, q) twice gives the same cart and
\* the same success outcome as one add(P, 2q).
C4_Claimed_AddTwiceIsAddDouble ==
  \A p \in ProductIds : \A q \in PairQuantities :
    ( /\ products[p].present
      /\ products[p].stock >= QuantityOf(cart.items, p) + 2 * q )
    => AddTwice(p, q) = AddOnce(p, 2 * q)

\* C4 (amended): the same, provided the combined quantity, the quantity of P
\* in the cart plus 2q, does not exceed the per-line maximum of 99.
C4_AddTwiceIsAddDouble ==
  \A p \in ProductIds : \A q \in PairQuantities :
    ( /\ products[p].present
      /\ products[p].stock >= QuantityOf(cart.items, p) + 2 * q
      /\ QuantityOf(cart.items, p) + 2 * q <= MAX_QUANTITY )
    => AddTwice(p, q) = AddOnce(p, 2 * q)

\* add(P, q) has just succeeded for the second time in a row on a line that
\* now holds the q units of each, within the stock
C4_Witness ==
  /\ request.op = "add"
  /\ response.success
  /\ request.quantity >= 1
  /\ prior >= request.quantity
  /\ QuantityOf(cart.items, request.product_id) = prior + request.quantity
  /\ products[request.product_id].present
  /\ products[request.product_id].stock >= QuantityOf(cart.items, request.product_id)
  /\ Len(cart.items) = 2

\* C5 (as claimed): in a logged-in session, add(P, q) of an existing product
\* with q >= 1 fails with the out-of-stock error whenever the quantity of P
\* in the cart plus q exceeds the stock of P.
C5_Claimed_OutOfStockOnCumulativeQuantity ==
  [][ \A p \in ProductIds : \A q \in QtyInputs(p) :
        ( /\ logged_in
          /\ products[p].present
          /\ q >= 1
          /\ QuantityOf(cart.items, p) + q > products[p].stock
          /\ api_cart_add(p, q) )
        => (~response'.success /\ response'.error \in OutOfStock)
    ]_vars

\* C5 (amended): the same, provided the quantity of P in the cart plus q
\* does not exceed the per-line maximum of 99.
C5_OutOfStockOnCumulativeQuantity ==
  [][ \A p \in ProductIds : \A q \in QtyInputs(p) :
        ( /\ logged_in
          /\ products[p].present
          /\ q >= 1
          /\ QuantityOf(cart.items, p) + q > products[p].stock
          /\ QuantityOf(cart.items, p) + q <= MAX_QUANTITY
          /\ api_cart_add(p, q) )
        => (~response'.success /\ response'.error \in OutOfStock)
    ]_vars

\* an add whose quantity alone is within the stock has just failed for lack
\* of stock, because of the quantity already in the cart
C5_Witness ==
  /\ request.op = "add"
  /\ ~response.success
  /\ response.error \in OutOfStock
  /\ prior > 0
  /\ products[request.product_id].present
  /\ request.quantity <= products[request.product_id].stock
  /\ prior + request.quantity > products[request.product_id].stock
  /\ QuantityOf(cart.items, request.product_id) = prior

\* C6: add(P, q) with q < 1 never adds or changes a cart line and, once the
\* request is past the login and product-id checks of the handler, fails
\* with the invalid-quantity error, whether product P exists or not.
C6_AddBelowOneIsInvalidQuantity ==
  [][ \A p \in RequestIds : \A q \in QtyInputs(p) :
        (q < 1 /\ api_cart_add(p, q)) =>
          /\ ~response'.success
          /\ CartUnchanged
          /\ (logged_in /\ p # 0) => response'.error \in InvalidQuantity
    ]_vars

\* an add with a quantity below 1 for a product that does not exist has just
\* failed with the invalid-quantity error, on a cart that holds a line
C6_Witness ==
  /\ request.op = "add"
  /\ request.quantity < 1
  /\ request.product_id \in ProductIds
  /\ ~products[request.product_id].present
  /\ ~response.success
  /\ response.error \in InvalidQuantity
  /\ Len(cart.items) > 0

\* C7: a successful update(P, n) with n > 0 stores n as the quantity of P's
\* line, whatever the quantity was, and changes no other line and no
\* position.
C7_UpdateSetsQuantity ==
  [][ \A p \in RequestIds : \A n \in QtyInputs(p) :
        (n > 0 /\ api_cart_update(p, n) /\ response'.success) =>
          LET k == FindItem(cart.items, p) IN
          /\ k # 0
          /\ Len(cart'.items) = Len(cart.items)
          /\ cart'.items[k] = [cart.items[k] EXCEPT !.quantity = n]
          /\ \A i \in 1..Len(cart.items) : i # k => cart'.items[i] = cart.items[i]
    ]_vars

\* an update has just set a line that held another quantity, in a cart of
\* two lines
C7_Witness ==
  /\ request.op = "update"
  /\ request.quantity > 0
  /\ response.success
  /\ prior > 0
  /\ prior # request.quantity
  /\ QuantityOf(cart.items, request.product_id) = request.quantity
  /\ Len(cart.items) = 2

\* C8: in a logged-in session update(P, n) with n <= 0 on a cart that holds
\* P succeeds and leaves no line for P, and as long as no add of P has
\* succeeded since, remove(P) fails with the not-found error.
C8_UpdateToZeroRemovesLine ==
  [][ /\ \A p \in ProductIds : \A n \in QtyInputs(p) :
          (n <= 0 /\ logged_in /\ HasLine(p) /\ api_cart_update(p, n)) =>
            /\ response'.success
            /\ FindItem(cart'.items, p) = 0
            /\ Len(cart'.items) = Len(cart.items) - 1
      /\ \A p \in zeroed :
          (logged_in /\ api_cart_remove(p)) =>
            /\ ~response'.success
            /\ response'.error \in NotFound
            /\ CartUnchanged
    ]_vars

\* a remove of a product whose line an earlier update with n <= 0 took out
\* has just failed with the not-found error
C8_Witness ==
  /\ request.op = "remove"
  /\ request.product_id \in zeroed
  /\ ~response.success
  /\ response.error = ErrItemNotFound
  /\ Len(cart.items) > 0

\* C9: update(P, n) with n > 0 exceeding the current stock of product P
\* fails and leaves the cart unchanged.
C9_UpdateBeyondStockFails ==
  [][ \A p \in ProductIds : \A n \in QtyInputs(p) :
        ( /\ n > 0
          /\ products[p].present
          /\ n > products[p].stock
          /\ api_cart_update(p, n) )
        => (~response'.success /\ CartUnchanged)
    ]_vars

\* an update of an existing line to a quantity above the stock has just been
\* refused for lack of stock, and the line holds its previous quantity
C9_Witness ==
  /\ request.op = "update"
  /\ request.quantity > 0
  /\ prior > 0
  /\ products[request.product_id].present
  /\ request.quantity > products[request.product_id].stock
  /\ ~response.success
  /\ response.error \in OutOfStock
  /\ QuantityOf(cart.items, request.product_id) = prior

\* C10: in a logged-in session update(P, n), for any n, and remove(P) fail
\* with the not-found error when the cart has no line for P -- 'Item not
\* found in cart', or 'Cart is empty' when the session has no cart yet --
\* and leave the cart unchanged.
C10_NoLineIsNotFound ==
  [][ \A p \in ProductIds :
        (logged_in /\ ~HasLine(p)) =>
          /\ \A n \in QtyInputs(p) :
               api_cart_update(p, n) =>
                 /\ ~response'.success
                 /\ response'.error \in NotFound
                 /\ CartUnchanged
          /\ api_cart_remove(p) =>
                 /\ ~response'.success
                 /\ response'.error \in NotFound
                 /\ CartUnchanged
    ]_vars

\* an update or a remove of a product with no line has just failed in a
\* session that has no cart yet
C10_Witness ==
  /\ request.op \in {"update", "remove"}
  /\ request.product_id \in ProductIds
  /\ logged_in
  /\ ~has_cart
  /\ ~response.success
  /\ response.error = ErrCartEmpty

\* the same in a session whose cart holds another product's line
C10_WitnessOtherLine ==
  /\ request.op \in {"update", "remove"}
  /\ request.product_id \in ProductIds
  /\ prior = 0
  /\ Len(cart.items) > 0
  /\ ~response.success
  /\ response.error = ErrItemNotFound

\* C11: a successful remove(P) deletes exactly the line of P and leaves the
\* other lines and their order as they were; in a logged-in session it
\* succeeds whenever the cart holds P, whatever the stock of P or the
\* quantity of the line.
C11_RemoveDeletesOneLine ==
  [][ \A p \in RequestIds :
        /\ (api_cart_remove(p) /\ response'.success) =>
             LET k == FindItem(cart.items, p) IN
             /\ has_cart /\ k # 0
             /\ Len(cart'.items) = Len(cart.items) - 1
             /\ \A i \in 1..Len(cart'.items) :
                  cart'.items[i] = IF i < k THEN cart.items[i] ELSE cart.items[i + 1]
        /\ (is_logged_in /\ HasLine(p) /\ api_cart_remove(p)) => response'.success
    ]_vars

\* a remove has just taken the line of a product that is out of the
\* catalogue, or is short of the line's quantity, out of a cart that keeps
\* another line
C11_Witness ==
  /\ request.op = "remove"
  /\ response.success
  /\ prior > 0
  /\ \/ ~products[request.product_id].present
     \/ products[request.product_id].stock < prior
  /\ FindItem(cart.items, request.product_id) = 0
  /\ Len(cart.items) = 1

\* C12 (as claimed): clear succeeds in every session state and leaves a
\* cart with no lines and zero totals.
C12_Claimed_ClearAlwaysSucceeds ==
  [][ api_cart_clear => (response'.success /\ has_cart' /\ cart' = EmptyCart) ]_vars

\* C12 (amended): in a logged-in session clear succeeds, with or without a
\* cart in the session, and leaves a cart with no lines and zero totals;
\* without a login it fails and the cart stays as it was.
C12_ClearSucceedsWhenLoggedIn ==
  [][ api_cart_clear =>
        IF is_logged_in
        THEN response'.success /\ has_cart' /\ cart' = EmptyCart
        ELSE ~response'.success /\ CartUnchanged
    ]_vars

\* a clear has just succeeded and the session holds an empty cart
C12_Witness ==
  /\ request.op = "clear"
  /\ response.success
  /\ is_logged_in
  /\ has_cart
  /\ cart = EmptyCart

LegalTransitions ==
  {<<"pending", "processing">>, <<"pending", "cancelled">>,
   <<"processing", "on_delivery">>, <<"processing", "cancelled">>,
   <<"on_delivery", "completed">>, <<"on_delivery", "cancelled">>}

\* the statuses of the specification
OrderStatuses == {"pending", "processing", "on_delivery", "completed", "cancelled"}

TerminalStatuses == {"completed", "cancelled"}

\* a status request of the admin panel or of the seller panel
StatusRequest(order_id, new_status, db_ok) ==
  \/ admin_update_order_status(order_id, new_status, db_ok)
  \/ seller_update_order_status(order_id, new_status, db_ok)

\* C14: a transition request of the admin panel for an existing order with
\* status s, asking for another status t, succeeds and stores t exactly when
\* (s, t) is a legal transition (and the database takes the update); for
\* every other pair it is refused as an illegal transition and the table
\* stays as it was.
C14_LegalTransitionsOnly ==
  [][ \A o \in DOMAIN orders : \A t \in OrderStatuses :
        ( /\ admin_update_order_status(o, t, TRUE)
          /\ is_admin
          /\ t # orders[o].status )
        => IF <<orders[o].status, t>> \in LegalTransitions
           THEN /\ order_response'.success
                /\ orders' = [orders EXCEPT ![o].status = t]
           ELSE /\ ~order_response'.success
                /\ order_response'.error = ErrIllegalTransition
                /\ orders' = orders
    ]_vars

\* the admin panel has just completed an order, which took the three legal
\* steps from pending
C14_Witness ==
  /\ order_request.op = "admin_update"
  /\ order_request.status = "completed"
  /\ order_response.success
  /\ orders[order_request.order_id].status = "completed"
  /\ orders[order_request.order_id].seller_id = 0

\* the admin panel has just been refused an illegal transition
C14_WitnessRefused ==
  /\ order_request.op = "admin_update"
  /\ order_response.error = ErrIllegalTransition
  /\ order_request.status = "pending"
  /\ orders[order_request.order_id].status = "completed"

C18_OnlyTheStatusChanges ==
  [][ /\ \A o \in DOMAIN orders :
           /\ o \in DOMAIN orders'
           /\ orders'[o].total_amount = orders[o].total_amount
           /\ orders'[o].items = orders[o].items
           /\ orders'[o].seller_id = orders[o].seller_id
      /\ \A o \in OrderIdInputs : \A t \in StatusInputs : \A db_ok \in BOOLEAN :
           StatusRequest(o, t, db_ok) =>
             IF order_response'.success
             THEN /\ o \in DOMAIN orders
                  /\ orders' = [orders EXCEPT ![o].status = t]
             ELSE orders' = orders
    ]_vars

\* a status request has just succeeded on one order and the other order has
\* another status
C18_Witness ==
  /\ order_request.op \in {"admin_update", "seller_update"}
  /\ order_response.success
  /\ writes = 1
  /\ \E o \in DOMAIN orders :
       /\ o # order_request.order_id
       /\ orders[o].status # orders[order_request.order_id].status
       /\ orders[o].status # "pending"

(***************************************************************************)
(* Claims on checkout.                                                     *)
(***************************************************************************)
\* C19: an order-creation request persists no order while the session's
\* cart has no lines, and a checkout with an empty cart fails with 'Cart is
\* empty'.
C19_OrdersOnlyFromNonEmptyCart ==
  [][ /\ Len(orders') > Len(orders) => (has_cart /\ cart.items # <<>>)
      /\ \A user_found \in BOOLEAN : \A fail_at \in 0..MaxOrders :
           ( /\ api_order_create(TRUE, user_found, fail_at)
             /\ logged_in
             /\ (~has_cart \/ cart.items = <<>>) )
           => ( /\ ~order_response'.success
                /\ order_response'.error = ErrCartEmpty
                /\ orders' = orders )
    ]_vars

\* C20: when an order-creation request has persisted at least one order,
\* the session's cart is empty when the request returns.
C20_CartEmptyAfterOrders ==
  [][ Len(orders') > Len(orders) => (~has_cart' \/ cart'.items = <<>>) ]_vars

\* the sum of the total_amount of a list of orders
RECURSIVE SumAmount(_)
SumAmount(rows) ==
  IF rows = <<>> THEN 0 ELSE Head(rows).total_amount + SumAmount(Tail(rows))

\* the rows a step has added to the orders table
NewOrders == SubSeq(orders', Len(orders) + 1, Len(orders'))

\* a request to one of the two order-creation endpoints
CreationRequest ==
  \/ \E address, user_found \in BOOLEAN : \E fail_at \in 0..MaxOrders :
       api_order_create(address, user_found, fail_at)
  \/ \E address, user_found \in BOOLEAN : \E fail_at \in 0..MaxOrders :
       \E seller_items \in SellerItemsInputs :
         api_order_create_by_seller(address, seller_items, user_found, fail_at)

\* C21: a successful checkout creates one order per cart line, in the
\* order of the lines, each holding that line with its quantity and price,
\* and the amounts of the created orders add up to the cart's total_price.
C21_CheckoutStoresTheCart ==
  [][ \A address, user_found \in BOOLEAN : \A fail_at \in 0..MaxOrders :
        (api_order_create(address, user_found, fail_at) /\ order_response'.success)
        => /\ Len(NewOrders) = Len(cart.items)
           /\ \A i \in 1..Len(cart.items) : NewOrders[i].items = <<cart.items[i]>>
           /\ SumAmount(NewOrders) = cart.total_price
    ]_vars

\* a checkout of a cart with two lines has just succeeded
C21_Witness ==
  /\ order_request.op = "create"
  /\ order_response.success
  /\ writes = 2
  /\ Len(orders) = Len(InitialOrders) + 2
  /\ orders[Len(orders)].items[1].product_id # orders[Len(orders) - 1].items[1].product_id
  /\ cart = EmptyCart

\* C22: a status request that fails leaves the status of every order as
\* it was.
C22_FailedStatusRequestKeepsStatuses ==
  [][ \A o \in OrderIdInputs : \A t \in StatusInputs : \A db_ok \in BOOLEAN :
        (StatusRequest(o, t, db_ok) /\ ~order_response'.success)
        => /\ DOMAIN orders' = DOMAIN orders
           /\ \A i \in DOMAIN orders : orders'[i].status = orders[i].status
    ]_vars

\* the admin panel has just asked for a legal transition and the database
\* call failed
C22_Witness ==
  /\ order_request.op = "admin_update"
  /\ ~order_response.success
  /\ order_response.error = ErrUpdateFailed
  /\ <<orders[order_request.order_id].status, order_request.status>> \in LegalTransitions

\* C23 (as claimed): in a logged-in session add(P, q) succeeds whenever P
\* exists, q >= 1 and the stock of P is at least the quantity of P in the
\* cart plus q.
C23_Claimed_AddPreconditionsSuffice ==
  [][ \A p \in ProductIds : \A q \in QtyInputs(p) :
        ( /\ api_cart_add(p, q)
          /\ is_logged_in
          /\ products[p].present
          /\ q >= 1
          /\ products[p].stock >= QuantityOf(cart.items, p) + q )
        => response'.success
    ]_vars

\* C23 (amended): ... and the quantity of P in the cart plus q is at most
\* 99.
C23_AddPreconditionsSuffice ==
  [][ \A p \in ProductIds : \A q \in QtyInputs(p) :
        ( /\ api_cart_add(p, q)
          /\ is_logged_in
          /\ products[p].present
          /\ q >= 1
          /\ products[p].stock >= QuantityOf(cart.items, p) + q
          /\ QuantityOf(cart.items, p) + q <= MAX_QUANTITY )
        => /\ response'.success
           /\ QuantityOf(cart'.items, p) = QuantityOf(cart.items, p) + q
    ]_vars

\* an add has just raised the quantity of a line within the stock
C23_Witness ==
  /\ request.op = "add"
  /\ response.success
  /\ prior > 0
  /\ QuantityOf(cart.items, request.product_id) = prior + request.quantity
  /\ products[request.product_id].present
  /\ products[request.product_id].stock >= prior + request.quantity

\* C25: an order-creation request that returns failure has persisted no
\* order.
C25_FailedCreationPersistsNothing ==
  [][ (CreationRequest /\ ~order_response'.success) => orders' = orders ]_vars

\* C26: every product has at most one line in the cart.
C26_OneLinePerProduct ==
  \A i, j \in 1..Len(cart.items) :
    cart.items[i].product_id = cart.items[j].product_id => i = j

\* an add for a product that has a line has just succeeded, in a cart with
\* two lines
C26_Witness ==
  /\ request.op = "add"
  /\ response.success
  /\ prior > 0
  /\ Len(cart.items) = 2

\* C27: the quantity of the item of every order a creation request
\* persists is at most the stock the product has at that moment.
C27_OrderedQuantityWithinStock ==
  [][ CreationRequest =>
        \A i \in 1..Len(NewOrders) :
          LET item == NewOrders[i].items[1] IN
          /\ products[item.product_id].present
          /\ item.quantity <= products[item.product_id].stock
    ]_vars

\* C28: every order is persisted with status pending.
C28_OrdersStartPending ==
  [][ \A i \in 1..Len(NewOrders) : NewOrders[i].status = "pending" ]_vars

\* each endpoint has created one of the last two orders
C28_Witness ==
  /\ order_request.op = "create_by_seller"
  /\ order_response.success
  /\ writes = 1
  /\ Len(orders) = Len(InitialOrders) + 2
  /\ orders[Len(orders)].status = "pending"
  /\ orders[Len(orders)].items[1].product_id = RetailProduct
  /\ orders[Len(orders) - 1].items[1].product_id = BulkProduct

(***************************************************************************)
(* Claims on concurrent status requests and on the one-time codes.         *)
(***************************************************************************)
\* C24: every change of the stored status of an order is a legal
\* transition, also when admin status requests for the order interleave
\* between their read and their write.
C24_EveryStatusChangeIsLegal ==
  [][ \A o \in DOMAIN orders :
        orders'[o].status # orders[o].status
        => <<orders[o].status, orders'[o].status>> \in LegalTransitions
    ]_vars

\* the latest row of a formatted phone number
LatestOtp(p) == otp_codes[p][Len(otp_codes[p])]

\* C29: once verify_otp has succeeded for a phone number, a verify_otp for
\* the number with the same code fails, until store_otp stores a new code.
C29_OtpVerifiesOnce ==
  [][ \A p \in PhoneInputs : \A c \in OtpCodes : \A db_ok \in BOOLEAN :
        ( /\ verify_otp(p, c, db_ok)
          /\ format_phone_number(p).ok
          /\ otp_history[format_phone_number(p).phone].verified = c )
        => ~otp_response'.success
    ]_vars

\* the code that verified has just been refused, before its expiry
C29_Witness ==
  /\ otp_request.op = "verify"
  /\ ~otp_response.success
  /\ otp_response.error = ErrNoOtp
  /\ format_phone_number(otp_request.phone_number).ok
  /\ LET p == format_phone_number(otp_request.phone_number).phone IN
     /\ otp_history[p].verified = otp_request.otp_code
     /\ otp_codes[p] # <<>>
     /\ LatestOtp(p).is_used
     /\ LatestOtp(p).otp_code_hash = hash_otp(otp_request.otp_code)
     /\ now <= LatestOtp(p).expires_at

\* C30: the attempts of a stored code never exceed MAX_OTP_ATTEMPTS, and
\* once MAX_OTP_ATTEMPTS wrong codes were submitted for a stored code,
\* verify_otp fails with the right code too, until store_otp replaces it.
C30_AttemptsAreCapped ==
  [][ /\ \A p \in PhoneNumbers : \A i \in 1..Len(otp_codes'[p]) :
           otp_codes'[p][i].attempts <= MAX_OTP_ATTEMPTS
      /\ \A p \in PhoneInputs : \A c \in OtpCodes : \A db_ok \in BOOLEAN :
           ( /\ verify_otp(p, c, db_ok)
             /\ format_phone_number(p).ok
             /\ otp_history[format_phone_number(p).phone].wrong >= MAX_OTP_ATTEMPTS
             /\ otp_codes[format_phone_number(p).phone] # <<>>
             /\ LatestOtp(format_phone_number(p).phone).otp_code_hash = hash_otp(c) )
           => ~otp_response'.success
    ]_vars

\* the right code has just been refused, before its expiry, after
\* MAX_OTP_ATTEMPTS wrong ones
C30_Witness ==
  /\ otp_request.op = "verify"
  /\ ~otp_response.success
  /\ otp_response.error = ErrMaxAttempts
  /\ format_phone_number(otp_request.phone_number).ok
  /\ LET p == format_phone_number(otp_request.phone_number).phone IN
     /\ otp_codes[p] # <<>>
     /\ LatestOtp(p).otp_code_hash = hash_otp(otp_request.otp_code)
     /\ LatestOtp(p).attempts = MAX_OTP_ATTEMPTS
     /\ otp_history[p].wrong = MAX_OTP_ATTEMPTS
     /\ ~LatestOtp(p).is_used
     /\ now <= LatestOtp(p).expires_at

====
